---- MODULE Spec2Model ----
(***************************************************************************)
(* Model of beian.py: the batch driver (__main__), fetch_official_website  *)
(* with its ThreadPoolExecutor fan-out, get_ent_info,                      *)
(* query_equity_investment, the lru_cache around get_official_website and  *)
(* save_to_csv.                                                            *)
(*                                                                         *)
(* Python values: None is the string "None"; an exception that leaves a    *)
(* call is the string "raise"; an optional integer is a sequence of        *)
(* length 0 or 1; a str is a sequence of one-character strings.            *)
(***************************************************************************)
EXTENDS Integers, Sequences, FiniteSets, TLC

VARIABLES
    equity_threshold,   \* args.equity / the equity_threshold parameter: <<>> is None
    max_workers,        \* args.threads
    pc,                 \* position of the main thread
    key,                \* index of the search key the main loop is at
    parent,             \* parent_name, parent_id of the current key
    official_website,   \* official_website local of fetch_official_website
    child_companies,    \* child_companies local
    futures,            \* the work items handed to the executor
    equity_investments, \* equity_investments local
    all_results,        \* all_results of __main__
    csv_rows,           \* rows written by save_to_csv after the header
    saves,              \* number of save_to_csv calls
    cache,              \* the lru_cache of get_official_website, least recent first
    returned,           \* history: values each (name, id) lookup has returned
    ent_infos,          \* history: what get_ent_info returned for each key
    query_calls,        \* history: number of query_equity_investment calls
    err,                \* the exception that ended the run, if any
    funded_ratio_str,   \* a fundedRatio string handed to the percentage parser
    parsed              \* what the parser made of funded_ratio_str

vars == <<equity_threshold, max_workers, pc, key, parent, official_website,
          child_companies, futures, equity_investments, all_results, csv_rows,
          saves, cache, returned, ent_infos, query_calls, err,
          funded_ratio_str, parsed>>

(*************************** bounds ***************************************)
\* search keys of the input file
NumKeys == 2
\* children the graph endpoint reports over one run
MaxChildren == 2
\* largest --threads value tried
MaxWorkers == 2
\* longest fundedRatio string the parser is tried on
MaxLen == 3

(*************************** program constants ****************************)
CacheMaxSize == 128
ThresholdLow == 0
ThresholdHigh == 100

(*************************** value domains ********************************)
\* (entName, entid) pairs of the registry
Entities == {"A", "B"}
\* what one fetch of a detail page can give: a link, no link, or an
\* exception that is not a RequestException (quote() on a non-str name)
Sites == {"u1", "None"}
FetchOutcomes == Sites \cup {"raise"}
Thresholds == {<<>>, <<-1>>, <<50>>, <<101>>}
ParseThresholds == {0, 50, 100}
Digits == {"0", "1", "2", "3", "4", "5", "6", "7", "8", "9"}
DigitVal == ("0" :> 0) @@ ("1" :> 1) @@ ("2" :> 2) @@ ("3" :> 3) @@ ("4" :> 4)
            @@ ("5" :> 5) @@ ("6" :> 6) @@ ("7" :> 7) @@ ("8" :> 8) @@ ("9" :> 9)
\* characters of the fundedRatio strings the parser is tried on
Alphabet == {"0", "7", ".", "%", "-", "e"}
RECURSIVE StringsOfLen(_)
StringsOfLen(n) ==
    IF n = 0 THEN {<<>>}
    ELSE {Append(s, c) : s \in StringsOfLen(n - 1), c \in Alphabet}
Strings == UNION {StringsOfLen(n) : n \in 0..MaxLen}
\* fundedRatio strings the graph endpoint answers with in the pipeline
RatioPool == {<<"6", "0", "%">>, <<"6", "0", ".", "9">>, <<"7", "0">>,
              <<"4", "0", "%">>, <<"1", ".", "2", ".", "3">>}

(*************************** str helpers **********************************)
\* str.replace(ch, "")
Remove(s, ch) == SelectSeq(s, LAMBDA c : c # ch)
\* str.isdigit()
IsDigit(s) == Len(s) > 0 /\ \A i \in 1..Len(s) : s[i] \in Digits
Count(s, ch) == Cardinality({i \in 1..Len(s) : s[i] = ch})
RECURSIVE DecVal(_)
DecVal(s) ==
    IF Len(s) = 0 THEN 0
    ELSE 10 * DecVal(SubSeq(s, 1, Len(s) - 1)) + DigitVal[s[Len(s)]]
\* int(float(s)) for s made of digits and at most one ".": the digits before
\* the point (none: 0)
IntOfFloat(s) ==
    LET dots == {i \in 1..Len(s) : s[i] = "."}
    IN  IF dots = {} THEN DecVal(s)
        ELSE DecVal(SubSeq(s, 1, (CHOOSE i \in dots : TRUE) - 1))

NoChild == [kind |-> "excluded", funded_ratio |-> 0]

\* lines 88-96 of query_equity_investment for one child: what becomes of a
\* fundedRatio string under a threshold
ParseFundedRatio(s, threshold) ==
    LET funded_ratio_str_ == Remove(s, "%")
    IN  IF ~ IsDigit(Remove(funded_ratio_str_, "."))
        THEN NoChild
        ELSE IF Count(funded_ratio_str_, ".") > 1
        THEN [kind |-> "ValueError", funded_ratio |-> 0]
        ELSE IF IntOfFloat(funded_ratio_str_) >= threshold
        THEN [kind |-> "included", funded_ratio |-> IntOfFloat(funded_ratio_str_)]
        ELSE NoChild

(*************************** lru_cache ************************************)
\* the cache is a sequence of [k, v] links, least recently used first
CacheHas(c, e) == \E i \in 1..Len(c) : c[i].k = e
CacheGet(c, e) == c[CHOOSE i \in 1..Len(c) : c[i].k = e].v
\* a hit moves the link to the most recently used end
CacheTouch(c, e) ==
    LET i == CHOOSE j \in 1..Len(c) : c[j].k = e
    IN  SubSeq(c, 1, i - 1) \o SubSeq(c, i + 1, Len(c)) \o <<c[i]>>
\* after a miss and the call: a key another thread stored meanwhile is left
\* alone, a full cache drops its oldest link
CachePut(c, e, v) ==
    IF CacheHas(c, e) THEN c
    ELSE IF Len(c) >= CacheMaxSize THEN Append(Tail(c), [k |-> e, v |-> v])
    ELSE Append(c, [k |-> e, v |-> v])
\* exceptions are not cached
CacheAfter(c, e, out) == IF out = "raise" THEN c ELSE CachePut(c, e, out)
Record(r, e, out) ==
    IF out = "raise" THEN r ELSE [r EXCEPT ![e] = r[e] \cup {out}]

(*************************** fetch_official_website ***********************)
ThresholdValidNoLowerBound(t) ==
    Len(t) = 1 /\ t[1] <= ThresholdHigh
ThresholdValid(t) ==
    Len(t) = 1 /\ ThresholdLow <= t[1] /\ t[1] <= ThresholdHigh

FailedResult(k) ==
    [search_key |-> k, parent_name |-> "None", official_website |-> "None",
     equity_investments |-> <<>>]
Result(k, name, site, children) ==
    [search_key |-> k, parent_name |-> name, official_website |-> site,
     equity_investments |-> children]

SortDescSkipped(s) == s
\* list.sort(key=funded_ratio, reverse=True): stable, descending
RECURSIVE SortDesc(_)
SortDesc(s) ==
    IF Len(s) = 0 THEN <<>>
    ELSE LET m == CHOOSE i \in 1..Len(s) :
                     /\ \A j \in 1..Len(s) : s[j].funded_ratio <= s[i].funded_ratio
                     /\ \A j \in 1..(i - 1) : s[j].funded_ratio < s[i].funded_ratio
         IN  <<s[m]>> \o SortDesc(SubSeq(s, 1, m - 1) \o SubSeq(s, m + 1, Len(s)))

\* the children of a graph response that pass lines 88-96, in response order
RECURSIVE Results(_, _)
Results(children, threshold) ==
    IF Len(children) = 0 THEN <<>>
    ELSE LET head == Results(SubSeq(children, 1, Len(children) - 1), threshold)
             c == children[Len(children)]
             p == ParseFundedRatio(c.fundedRatio, threshold)
         IN  IF p.kind = "included"
             THEN Append(head, [name |-> c.entity, funded_ratio |-> p.funded_ratio,
                                website |-> "unset", idx |-> Len(head) + 1])
             ELSE head
Raises(children, threshold) ==
    \E i \in 1..Len(children) :
        ParseFundedRatio(children[i].fundedRatio, threshold).kind = "ValueError"

ChildInputs == [entity : Entities, fundedRatio : RatioPool]
RECURSIVE ChildLists(_)
ChildLists(n) ==
    IF n = 0 THEN {<<>>}
    ELSE ChildLists(n - 1) \cup
         {Append(s, c) : s \in {t \in ChildLists(n - 1) : Len(t) = n - 1},
                         c \in ChildInputs}

(*************************** upstream answers *****************************)
\* answers of newSearch as get_ent_info sees them (lines 38-55): a transport
\* error or a body that is no JSON (both RequestException), a missing key
\* (KeyError), an empty list, a null where a dict or list is expected
\* (TypeError), or a first entity
SearchOutcomes(known) ==
    {[kind |-> k, entity |-> "None"] :
        k \in {"neterr", "badjson", "missing", "empty", "null"}}
    \cup {[kind |-> "ok", entity |-> e] : e \in known}
\* entity names are interchangeable: the first one a run resolves is "A"
Resolvable(infos) ==
    IF \A k \in 1..Len(infos) : infos[k] = "None" THEN {"A"} ELSE Entities
\* answers of graphics/query as query_equity_investment sees them (lines
\* 76-97): a RequestException, no success flag or no payload, a null
\* children list (TypeError), or at most n children
QueryOutcomes(n) ==
    {[kind |-> k, children |-> <<>>] :
        k \in {"neterr", "badjson", "nosuccess", "nullchildren"}}
    \cup {[kind |-> "children", children |-> cs] : cs \in ChildLists(n)}

\* children reported so far in the run
RECURSIVE Reported(_)
Reported(results) ==
    IF Len(results) = 0 THEN 0
    ELSE Len(results[Len(results)].equity_investments)
         + Reported(SubSeq(results, 1, Len(results) - 1))

(*************************** the executor *********************************)
Running(fs) == {i \in 1..Len(fs) : fs[i].state = "running"}
InFlight == Cardinality(Running(futures))
CanStartThreadPerTask(fs, i, w) ==
    /\ fs[i].state = "queued"
    /\ \A j \in 1..(i - 1) : fs[j].state # "queued"
\* a work item leaves the queue when it is the oldest queued one and a
\* worker thread is free; the pool never has more than max_workers threads
CanStart(fs, i, w) ==
    /\ fs[i].state = "queued"
    /\ \A j \in 1..(i - 1) : fs[j].state # "queued"
    /\ Cardinality(Running(fs)) < w
AllYieldedFirstOnly(fs) == \E i \in 1..Len(fs) : fs[i].collected
\* as_completed has yielded every future
AllYielded(fs) == \A i \in 1..Len(fs) : fs[i].collected
\* ThreadPoolExecutor.__exit__: shutdown(wait=True)
AllFinished(fs) == \A i \in 1..Len(fs) : fs[i].state = "done"
CollectedDropsFailed(eq, child, res) ==
    IF res = "raise" THEN eq
    ELSE Append(eq, [child EXCEPT !.website = res])
\* lines 180-187: the child of a completed future joins equity_investments
Collected(eq, child, res) ==
    Append(eq, [child EXCEPT !.website = IF res = "raise" THEN "None" ELSE res])

(*************************** save_to_csv **********************************)
OrEmpty(v) == IF v = "None" THEN "" ELSE v
ParentRow(r) ==
    [search_key |-> r.search_key, unit |-> r.parent_name,
     site |-> OrEmpty(r.official_website), equity |-> <<>>]
ChildRow(r, c) ==
    [search_key |-> r.search_key, unit |-> c.name,
     site |-> OrEmpty(c.website), equity |-> <<c.funded_ratio>>]
ChildRows(r) ==
    [i \in 1..Len(r.equity_investments) |-> ChildRow(r, r.equity_investments[i])]
RECURSIVE RowsSkipFailed(_)
RowsSkipFailed(results) ==
    IF Len(results) = 0 THEN <<>>
    ELSE LET r == results[Len(results)]
         IN  RowsSkipFailed(SubSeq(results, 1, Len(results) - 1))
             \o (IF r.parent_name = "None" THEN <<>>
                 ELSE <<ParentRow(r)>> \o ChildRows(r))
RECURSIVE Rows(_)
Rows(results) ==
    IF Len(results) = 0 THEN <<>>
    ELSE LET r == results[Len(results)]
         IN  Rows(SubSeq(results, 1, Len(results) - 1))
             \o <<ParentRow(r)>> \o ChildRows(r)

(*************************** initial state ********************************)
Idle ==
    /\ pc = "resolve"
    /\ key = 1
    /\ parent = "None"
    /\ official_website = "None"
    /\ child_companies = <<>>
    /\ futures = <<>>
    /\ equity_investments = <<>>
    /\ all_results = <<>>
    /\ csv_rows = <<>>
    /\ saves = 0
    /\ cache = <<>>
    /\ returned = [e \in Entities |-> {}]
    /\ ent_infos = <<>>
    /\ query_calls = 0
    /\ err = "None"

Init ==
    /\ equity_threshold \in Thresholds
    /\ max_workers \in 1..MaxWorkers
    /\ Idle
    /\ funded_ratio_str = <<>>
    /\ parsed = NoChild

(*************************** the main thread ******************************)
locals == <<parent, official_website, child_companies, equity_investments>>
inputs == <<equity_threshold, max_workers, funded_ratio_str, parsed>>

\* an exception nobody catches ends the run before save_to_csv
Abort(e) ==
    /\ pc' = "aborted"
    /\ err' = e
    /\ UNCHANGED <<key, locals, futures, all_results, csv_rows, saves>>

\* fetch_official_website returns and the main loop appends (lines 262-269)
Return(res) ==
    /\ all_results' = Append(all_results, res)
    /\ key' = key + 1
    /\ pc' = IF key + 1 > NumKeys THEN "save" ELSE "resolve"
    /\ parent' = "None"
    /\ official_website' = "None"
    /\ child_companies' = <<>>
    /\ equity_investments' = <<>>
    /\ futures' = SelectSeq(futures, LAMBDA f : ~ (f.state = "done" /\ f.collected))
    /\ UNCHANGED <<csv_rows, saves, err>>

\* get_ent_info, and the early return of line 156
GetEntInfo ==
    /\ pc = "resolve"
    /\ key <= NumKeys
    /\ \E out \in SearchOutcomes(Resolvable(ent_infos)) :
        IF out.kind = "null"
        THEN \* data["data"] is null: TypeError, not among the caught ones
             /\ Abort("TypeError")
             /\ UNCHANGED ent_infos
        ELSE /\ ent_infos' = Append(ent_infos, out.entity)
             /\ IF out.kind = "ok"
                THEN /\ parent' = out.entity
                     /\ pc' = "parent_site"
                     /\ UNCHANGED <<key, official_website, child_companies,
                                    equity_investments, futures, all_results,
                                    csv_rows, saves, err>>
                ELSE Return(FailedResult(key))
    /\ UNCHANGED <<inputs, cache, returned, query_calls>>

\* line 161, then the threshold test of line 165
ParentWebsite ==
    /\ pc = "parent_site"
    /\ \E out \in FetchOutcomes :
        LET hit == CacheHas(cache, parent)
            res == IF hit THEN CacheGet(cache, parent) ELSE out
        IN  /\ hit => out = "None"    \* a hit fetches nothing
            /\ cache' = IF hit THEN CacheTouch(cache, parent)
                        ELSE CacheAfter(cache, parent, res)
            /\ returned' = Record(returned, parent, res)
            /\ IF res = "raise"
               THEN Abort("TypeError")
               ELSE IF ThresholdValid(equity_threshold)
               THEN /\ official_website' = res
                    /\ pc' = "query"
                    /\ UNCHANGED <<key, parent, child_companies, equity_investments,
                                   futures, all_results, csv_rows, saves, err>>
               ELSE Return(Result(key, parent, res, <<>>))
    /\ UNCHANGED <<inputs, ent_infos, query_calls>>

\* query_equity_investment, and the test of line 168
QueryEquity ==
    /\ pc = "query"
    /\ query_calls' = query_calls + 1
    /\ \E out \in QueryOutcomes(MaxChildren - Reported(all_results)) :
        LET threshold == equity_threshold[1]
        IN  IF out.kind = "nullchildren"
            THEN Abort("TypeError")
            ELSE IF Raises(out.children, threshold)
            THEN Abort("ValueError")
            ELSE IF Results(out.children, threshold) = <<>>
            THEN Return(Result(key, parent, official_website, <<>>))
            ELSE /\ child_companies' = Results(out.children, threshold)
                 /\ pc' = "submit"
                 /\ UNCHANGED <<key, parent, official_website, equity_investments,
                                futures, all_results, csv_rows, saves, err>>
    /\ UNCHANGED <<inputs, cache, returned, ent_infos>>

\* executor.submit of the dict comprehension, one child after the other
Submit ==
    /\ pc = "submit"
    /\ LET mine == SelectSeq(futures, LAMBDA f : f.search_key = key)
           i == Len(mine) + 1
       IN  /\ futures' = Append(futures,
                  [search_key |-> key, child |-> i, state |-> "queued",
                   result |-> "None", collected |-> FALSE])
           /\ pc' = IF i = Len(child_companies) THEN "collect" ELSE "submit"
    /\ UNCHANGED <<inputs, key, locals, all_results, csv_rows, saves, cache,
                   returned, ent_infos, query_calls, err>>

\* the as_completed loop takes a finished future
Collect(i) ==
    /\ pc = "collect"
    /\ futures[i].search_key = key
    /\ futures[i].state = "done"
    /\ ~ futures[i].collected
    /\ equity_investments' =
           Collected(equity_investments, child_companies[futures[i].child],
                     futures[i].result)
    /\ futures' = [futures EXCEPT ![i].collected = TRUE]
    /\ UNCHANGED <<inputs, pc, key, parent, official_website, child_companies,
                   all_results, csv_rows, saves, cache, returned, ent_infos,
                   query_calls, err>>

\* the loop and the with block end, the list is sorted, the function returns
FanoutDone ==
    /\ pc = "collect"
    /\ AllYielded(futures)
    /\ AllFinished(futures)
    /\ Return(Result(key, parent, official_website, SortDesc(equity_investments)))
    /\ UNCHANGED <<inputs, cache, returned, ent_infos, query_calls>>

\* save_to_csv, called once after the loop
SaveToCsv ==
    /\ pc = "save"
    /\ csv_rows' = Rows(all_results)
    /\ saves' = saves + 1
    /\ pc' = "done"
    /\ UNCHANGED <<inputs, key, locals, futures, all_results, cache, returned,
                   ent_infos, query_calls, err>>

(*************************** the worker threads ***************************)
\* a worker takes a work item and calls get_official_website: a cache hit
\* returns at once, a miss goes on to fetch the page
WorkerStart(i) ==
    /\ CanStart(futures, i, max_workers)
    /\ LET e == child_companies[futures[i].child].name
       IN  IF CacheHas(cache, e)
           THEN /\ futures' = [futures EXCEPT ![i].state = "done",
                                              ![i].result = CacheGet(cache, e)]
                /\ cache' = CacheTouch(cache, e)
                /\ returned' = Record(returned, e, CacheGet(cache, e))
           ELSE /\ futures' = [futures EXCEPT ![i].state = "running"]
                /\ UNCHANGED <<cache, returned>>
    /\ UNCHANGED <<inputs, pc, key, locals, all_results, csv_rows, saves,
                   ent_infos, query_calls, err>>

\* the page fetch of a worker ends; the result is stored and returned
WorkerFinish(i) ==
    /\ futures[i].state = "running"
    /\ \E out \in FetchOutcomes :
        LET e == child_companies[futures[i].child].name
        IN  /\ futures' = [futures EXCEPT ![i].state = "done", ![i].result = out]
            /\ cache' = CacheAfter(cache, e, out)
            /\ returned' = Record(returned, e, out)
    /\ UNCHANGED <<inputs, pc, key, locals, all_results, csv_rows, saves,
                   ent_infos, query_calls, err>>

Next ==
    \/ GetEntInfo
    \/ ParentWebsite
    \/ QueryEquity
    \/ Submit
    \/ \E i \in 1..Len(futures) : WorkerStart(i)
    \/ \E i \in 1..Len(futures) : WorkerFinish(i)
    \/ \E i \in 1..Len(futures) : Collect(i)
    \/ FanoutDone
    \/ SaveToCsv

Spec == Init /\ [][Next]_vars

(*************************** the percentage parser alone ******************)
InitParse ==
    /\ equity_threshold \in {<<t>> : t \in ParseThresholds}
    /\ max_workers = 1
    /\ Idle
    /\ funded_ratio_str \in Strings
    /\ parsed = NoChild

\* lines 88-96 applied to one child's fundedRatio
ParseChild ==
    /\ pc = "resolve"
    /\ parsed' = ParseFundedRatio(funded_ratio_str, equity_threshold[1])
    /\ pc' = "parsed"
    /\ UNCHANGED <<equity_threshold, max_workers, funded_ratio_str, key, locals,
                   futures, all_results, csv_rows, saves, cache, returned,
                   ent_infos, query_calls, err>>

NextParse == ParseChild

SpecParse == InitParse /\ [][NextParse]_vars

(*************************** properties ***********************************)
Last(s) == s[Len(s)]

\* C1: at no instant are more than max_workers get_official_website calls
\* of the fan-out started and not yet returned.
C1_InFlightBounded == InFlight <= max_workers
\* the pool is full while a further child still waits in the queue
C1_Witness ==
    /\ InFlight = max_workers
    /\ \E i \in 1..Len(futures) : futures[i].state = "queued"

\* C2: every equity_investments list returned by fetch_official_website is
\* non-increasing in funded_ratio, whatever the completion order was.
C2_NonIncreasing ==
    \A k \in 1..Len(all_results) :
        LET eq == all_results[k].equity_investments
        IN  \A i \in 1..Len(eq) : \A j \in i..Len(eq) :
                eq[i].funded_ratio >= eq[j].funded_ratio
\* a result whose larger child came second in the graph response
C2_Witness ==
    \E k \in 1..Len(all_results) :
        LET eq == all_results[k].equity_investments
        IN  /\ Len(eq) >= 2
            /\ eq[1].funded_ratio > eq[2].funded_ratio
            /\ eq[1].idx > eq[2].idx

\* C3: when the fan-out returns, every child of the equity query is in the
\* result exactly once, a child whose extraction raised has website None,
\* every other child has the value its own extraction returned, and every
\* task has run to its end and been collected.
C3_FailuresIsolated ==
    [][(pc = "collect" /\ pc' # "collect") =>
        LET eq == Last(all_results').equity_investments
        IN  /\ AllFinished(futures)
            /\ \A i \in 1..Len(futures) : futures[i].collected
            /\ Len(futures) = Len(child_companies)
            /\ \A c \in 1..Len(child_companies) :
                /\ Cardinality({j \in 1..Len(eq) : eq[j].idx = c}) = 1
                /\ \A j \in 1..Len(eq) : eq[j].idx = c =>
                    /\ eq[j].name = child_companies[c].name
                    /\ eq[j].funded_ratio = child_companies[c].funded_ratio
                    /\ \E i \in 1..Len(futures) :
                        /\ futures[i].child = c
                        /\ eq[j].website = IF futures[i].result = "raise"
                                           THEN "None" ELSE futures[i].result
       ]_vars
\* every task is collected, one has raised and a sibling has found a link
C3_Witness ==
    /\ pc = "collect"
    /\ Len(futures) >= 2
    /\ \A i \in 1..Len(futures) : futures[i].collected
    /\ \E i \in 1..Len(futures) : futures[i].result = "raise"
    /\ \E i \in 1..Len(futures) : futures[i].result = "u1"

\* the regular expression ^\d+(\.\d+)?%?$ and the floor of the value it matches
Body(s) == IF Len(s) > 0 /\ s[Len(s)] = "%" THEN SubSeq(s, 1, Len(s) - 1) ELSE s
PointAt(s) ==
    {i \in 2..(Len(s) - 1) :
        /\ s[i] = "."
        /\ IsDigit(SubSeq(s, 1, i - 1))
        /\ IsDigit(SubSeq(s, i + 1, Len(s)))}
Matches(s) == IsDigit(Body(s)) \/ PointAt(Body(s)) # {}
Floor(s) ==
    IF IsDigit(Body(s)) THEN DecVal(Body(s))
    ELSE DecVal(SubSeq(Body(s), 1, (CHOOSE i \in PointAt(Body(s)) : TRUE) - 1))

\* C4: a fundedRatio string that matches ^\d+(\.\d+)?%?$ gives funded_ratio =
\* floor(value) and the child is included iff that is >= threshold; any other
\* string excludes the child.
C4_RegexDecides ==
    pc = "parsed" =>
        IF Matches(funded_ratio_str) /\ Floor(funded_ratio_str) >= equity_threshold[1]
        THEN parsed = [kind |-> "included", funded_ratio |-> Floor(funded_ratio_str)]
        ELSE parsed = NoChild

\* C5: any two get_official_website lookups of the same (name, id) return
\* the same result.
C5_SameKeySameResult ==
    \A e \in Entities : Cardinality(returned[e]) <= 1

\* C6: no upstream outcome aborts the batch: every key gets one result and
\* save_to_csv is called exactly once at the end.
C6_BatchCompletes ==
    /\ pc # "aborted"
    /\ saves <= 1
    /\ pc = "done" => saves = 1 /\ Len(all_results) = NumKeys

\* C7: the rows save_to_csv writes are, key by key in input order, the
\* parent row of the key followed by its child rows; every key has its one
\* parent row and rows of different keys do not interleave.
C7_RowsParentByParent ==
    saves = 1 =>
        /\ Len(all_results) = NumKeys
        /\ \A i \in 1..Len(csv_rows) : \A j \in i..Len(csv_rows) :
            csv_rows[i].search_key <= csv_rows[j].search_key
        /\ \A k \in 1..NumKeys :
            LET of == {i \in 1..Len(csv_rows) : csv_rows[i].search_key = k}
                eq == all_results[k].equity_investments
            IN  /\ all_results[k].search_key = k
                /\ Cardinality(of) = 1 + Len(eq)
                /\ \A i \in of :
                    LET n == Cardinality({j \in of : j < i})
                    IN  IF n = 0
                        THEN /\ csv_rows[i].equity = <<>>
                             /\ csv_rows[i].unit = all_results[k].parent_name
                        ELSE /\ csv_rows[i].equity = <<eq[n].funded_ratio>>
                             /\ csv_rows[i].unit = eq[n].name
\* a report with a failed key and a key with two children
C7_Witness ==
    /\ saves = 1
    /\ \E k \in 1..Len(all_results) : all_results[k].parent_name = "None"
    /\ \E k \in 1..Len(all_results) : Len(all_results[k].equity_investments) >= 2

\* C8: with a threshold outside [0, 100] or absent, query_equity_investment
\* is never called and no task is ever submitted; every result has no
\* children and carries the resolved parent name and the parent's website.
C8_BadThresholdSkipsQuery ==
    ~ (Len(equity_threshold) = 1 /\ 0 <= equity_threshold[1]
                                 /\ equity_threshold[1] <= 100) =>
        /\ query_calls = 0
        /\ futures = <<>>
        /\ pc \notin {"query", "submit", "collect"}
        /\ \A k \in 1..Len(all_results) :
            /\ all_results[k].equity_investments = <<>>
            /\ all_results[k].parent_name = ent_infos[k]
            /\ ent_infos[k] # "None" =>
                   all_results[k].official_website \in returned[ent_infos[k]]
C8_Witness ==
    /\ equity_threshold = <<101>>
    /\ Len(all_results) = NumKeys
    /\ \E k \in 1..Len(all_results) :
        /\ all_results[k].parent_name # "None"
        /\ all_results[k].official_website = "u1"

\* C9: children of equal funded_ratio are in the result in the order of the
\* equity-query response.
C9_TiesInQueryOrder ==
    \A k \in 1..Len(all_results) :
        LET eq == all_results[k].equity_investments
        IN  \A i \in 1..Len(eq) : \A j \in i..Len(eq) :
                eq[i].funded_ratio = eq[j].funded_ratio => eq[i].idx <= eq[j].idx

\* C10: every task that has not both finished and been collected belongs to
\* the key the main loop is at, and while a key is being resolved no task of
\* an earlier key is left.
C10_OneKeyAtATime ==
    /\ \A i \in 1..Len(futures) :
        ~ (futures[i].state = "done" /\ futures[i].collected) =>
            futures[i].search_key = key
    /\ pc \in {"resolve", "parent_site", "query"} => futures = <<>>
\* the second key is being resolved after a fan-out over two children
C10_Witness ==
    /\ pc = "resolve"
    /\ key = 2
    /\ Len(all_results[1].equity_investments) >= 2

====
